---- MODULE Spec2Model ----
(***************************************************************************)
(* Model of the help-center content manager (src/main.py): the "errors"    *)
(* table, the startup schema reconciler, the ORM <-> Pydantic mapper, the  *)
(* repository functions, the seeder and the HTML / admin handlers.         *)
(*                                                                         *)
(* A Python str is a sequence of one-character strings, so that split,     *)
(* join, strip, lower and the substring test are computed as the code      *)
(* computes them.  None (and SQL NULL) of an Optional[str] is the value    *)
(* None below; an Optional[Error] is a sequence of at most one record.     *)
(***************************************************************************)
EXTENDS Integers, Sequences, FiniteSets, TLC

\* Bounds of the model: rows the table may hold, and the last id the id
\* sequence may hand out.
MaxRows == 2
MaxId == 4

-----------------------------------------------------------------------------
(* Python str / Optional[str]                                              *)

None == <<"None">>

NL == "\n"

EmptyStr == <<>>

\* Python truthiness of an Optional[str] (`if c`, `x or d`).
Truthy(x) == x # None /\ x # EmptyStr

\* `x or d`
OrElse(x, d) == IF Truthy(x) THEN x ELSE d

\* str.split(sep): the segments between the separators, always at least one.
RECURSIVE split(_, _)
split(s, sep) ==
    IF \A i \in 1..Len(s) : s[i] # sep
    THEN <<s>>
    ELSE LET i == CHOOSE k \in 1..Len(s) :
                      s[k] = sep /\ \A j \in 1..(k - 1) : s[j] # sep
         IN  <<SubSeq(s, 1, i - 1)>> \o split(SubSeq(s, i + 1, Len(s)), sep)

\* A join that leaves the separator out.
RECURSIVE join_without_separator(_, _)
join_without_separator(l, sep) ==
    IF l = <<>> THEN EmptyStr ELSE l[1] \o join_without_separator(Tail(l), sep)

\* sep.join(l)
RECURSIVE join(_, _)
join(l, sep) ==
    IF l = <<>> THEN EmptyStr
    ELSE IF Len(l) = 1 THEN l[1]
    ELSE l[1] \o <<sep>> \o join(Tail(l), sep)

\* Characters str.strip() removes.
Whitespace == {" ", NL}

RECURSIVE lstrip(_)
lstrip(s) ==
    IF s # <<>> /\ s[1] \in Whitespace THEN lstrip(Tail(s)) ELSE s

RECURSIVE rstrip(_)
rstrip(s) ==
    IF s # <<>> /\ s[Len(s)] \in Whitespace
    THEN rstrip(SubSeq(s, 1, Len(s) - 1)) ELSE s

\* str.strip()
strip(s) == rstrip(lstrip(s))

\* The upper-case letters of the model's alphabet and their lower-case forms.
UpperCase == <<"A", "B", "C", "E", "L", "N", "P", "R", "S", "V">>

LowerCase == <<"a", "b", "c", "e", "l", "n", "p", "r", "s", "v">>

\* str.lower() on one character.
lower_char(c) ==
    IF \E i \in 1..Len(UpperCase) : UpperCase[i] = c
    THEN LowerCase[CHOOSE i \in 1..Len(UpperCase) : UpperCase[i] = c]
    ELSE c

\* str.lower()
lower(s) == [i \in 1..Len(s) |-> lower_char(s[i])]

\* `sub in s`, equally `s.find(sub) != -1`
contains(sub, s) ==
    \E k \in 0..(Len(s) - Len(sub)) : SubSeq(s, k + 1, k + Len(sub)) = sub

\* The model's alphabet in code-point order, for sorted() of strings.
CodePoints ==
    <<NL, " ", "-", ".", "/", "1", "2",
      "A", "B", "C", "E", "L", "N", "P", "R", "S", "V",
      "a", "b", "c", "d", "e", "g", "i", "l", "m", "n", "o", "p", "r", "s",
      "u", "v", "x", "y">>

ord(c) == CHOOSE i \in 1..Len(CodePoints) : CodePoints[i] = c

\* s < t in Python's ordering of str
RECURSIVE str_lt(_, _)
str_lt(s, t) ==
    IF t = <<>> THEN FALSE
    ELSE IF s = <<>> THEN TRUE
    ELSE IF s[1] # t[1] THEN ord(s[1]) < ord(t[1])
    ELSE str_lt(Tail(s), Tail(t))

\* sorted(set(...)) of strings
RECURSIVE sorted(_)
sorted(S) ==
    IF S = {} THEN <<>>
    ELSE LET m == CHOOSE x \in S : \A y \in S \ {x} : str_lt(x, y)
         IN  <<m>> \o sorted(S \ {m})

\* `if c` of the list comprehensions
NonEmpty(c) == c # EmptyStr

\* The comprehension without its `if c`.
text_to_list_unfiltered(text) == split(OrElse(text, EmptyStr), NL)

\* [c for c in (text or "").split("\n") if c]
text_to_list(text) == SelectSeq(split(OrElse(text, EmptyStr), NL), NonEmpty)

\* [c.strip() for c in raw.split("\n") if c.strip()]
StripAll(l) == [i \in 1..Len(l) |-> strip(l[i])]

form_to_list(raw) == SelectSeq(StripAll(split(raw, NL)), NonEmpty)

StrLit_error == <<"e", "r", "r", "o", "r">>
StrLit_guia == <<"g", "u", "i", "a">>
StrLit_errores == <<"e", "r", "r", "o", "r", "e", "s">>
StrLit_guias == <<"g", "u", "i", "a", "s">>

StrLit_comportamiento ==
    <<"c", "o", "m", "p", "o", "r", "t", "a", "m", "i", "e", "n", "t", "o">>
StrLit_buenas_practicas ==
    <<"b", "u", "e", "n", "a", "s", "-", "p", "r", "a", "c", "t", "i", "c", "a", "s">>
StrLit_faq == <<"f", "a", "q">>
StrLit_novedad == <<"n", "o", "v", "e", "d", "a", "d">>
StrLit_novedades == <<"n", "o", "v", "e", "d", "a", "d", "e", "s">>

-----------------------------------------------------------------------------
(* The "errors" table                                                      *)

\* Columns of the table before the extended columns were introduced.
BaselineColumns ==
    {"id", "type", "title", "short_description", "category", "is_common",
     "client_message", "causes_text", "quick_steps_text",
     "internal_steps_text", "images_text", "video_url"}

\* The columns ensure_extra_columns looks for, in the order it tests them.
ExtraColumns ==
    <<"primary_category", "description", "steps_text", "answer_text",
      "tags_text">>

Range(f) == {f[i] : i \in DOMAIN f}

\* Every column ErrorORM declares.
ErrorORMColumns == BaselineColumns \cup Range(ExtraColumns)

-----------------------------------------------------------------------------
(* ORM <-> Pydantic                                                        *)

orm_to_pydantic(e) ==
    [id |-> e.id,
     type |-> e.type,
     title |-> e.title,
     primary_category |-> OrElse(e.primary_category, StrLit_errores),
     category |-> OrElse(e.category, EmptyStr),
     is_common |-> e.is_common,
     short_description |-> e.short_description,
     description |-> e.description,
     client_message |-> e.client_message,
     causes |-> text_to_list(e.causes_text),
     quick_steps |-> text_to_list(e.quick_steps_text),
     internal_steps |-> text_to_list(e.internal_steps_text),
     steps |-> text_to_list(e.steps_text),
     answer |-> e.answer_text,
     tags |-> text_to_list(e.tags_text),
     images |-> text_to_list(e.images_text),
     video_url |-> e.video_url]

\* The `or ""` left out: an absent text goes to the row as NULL.
or_empty_left_out(x) == x

\* `data.x or ""` of pydantic_to_orm_data (lines 203, 204, 207)
or_empty(x) == OrElse(x, EmptyStr)

pydantic_to_orm_data(d) ==
    [type |-> d.type,
     title |-> d.title,
     primary_category |-> d.primary_category,
     category |-> or_empty(d.category),
     short_description |-> or_empty(d.short_description),
     description |-> d.description,
     is_common |-> d.is_common,
     client_message |-> or_empty(d.client_message),
     causes_text |-> join(d.causes, NL),
     quick_steps_text |-> join(d.quick_steps, NL),
     internal_steps_text |-> join(d.internal_steps, NL),
     steps_text |-> join(d.steps, NL),
     answer_text |-> OrElse(d.answer, None),
     tags_text |-> join(d.tags, NL),
     images_text |-> join(d.images, NL),
     video_url |-> d.video_url]

\* ErrorORM(**orm_data) once the insert has given it its primary key.
ErrorORM(o, id) ==
    [id |-> id,
     type |-> o.type,
     title |-> o.title,
     short_description |-> o.short_description,
     category |-> o.category,
     is_common |-> o.is_common,
     client_message |-> o.client_message,
     causes_text |-> o.causes_text,
     quick_steps_text |-> o.quick_steps_text,
     internal_steps_text |-> o.internal_steps_text,
     images_text |-> o.images_text,
     video_url |-> o.video_url,
     primary_category |-> o.primary_category,
     description |-> o.description,
     steps_text |-> o.steps_text,
     answer_text |-> o.answer_text,
     tags_text |-> o.tags_text]

-----------------------------------------------------------------------------
(* Repository functions, as functions of the table t (its rows in the      *)
(* order they were inserted) and of the id sequence.                       *)

RemoveAt(t, i) == SubSeq(t, 1, i - 1) \o SubSeq(t, i + 1, Len(t))

\* .order_by(ErrorORM.id): ascending
RECURSIVE order_by_id_asc(_)
order_by_id_asc(t) ==
    IF t = <<>> THEN <<>>
    ELSE LET m == CHOOSE i \in 1..Len(t) : \A j \in 1..Len(t) : t[i].id <= t[j].id
         IN  <<t[m]>> \o order_by_id_asc(RemoveAt(t, m))

\* .order_by(ErrorORM.id.desc())
RECURSIVE order_by_id_desc(_)
order_by_id_desc(t) ==
    IF t = <<>> THEN <<>>
    ELSE LET m == CHOOSE i \in 1..Len(t) : \A j \in 1..Len(t) : t[j].id <= t[i].id
         IN  <<t[m]>> \o order_by_id_desc(RemoveAt(t, m))

get_all_errors(t) ==
    LET r == order_by_id_desc(t)
    IN  [i \in 1..Len(r) |-> orm_to_pydantic(r[i])]

\* .filter(ErrorORM.id == error_id).first(): <<>> is None
filter_first(t, error_id) ==
    IF \E i \in 1..Len(t) : t[i].id = error_id
    THEN <<t[CHOOSE i \in 1..Len(t) :
                 t[i].id = error_id /\ \A j \in 1..(i - 1) : t[j].id # error_id]>>
    ELSE <<>>

get_error_by_id(t, error_id) ==
    LET row == filter_first(t, error_id)
    IN  IF row = <<>> THEN <<>> ELSE <<orm_to_pydantic(row[1])>>

\* A primary key computed from the rows present: the largest id plus one.
primary_key_max_plus_one(t, seq) ==
    IF t = <<>> THEN 1
    ELSE (CHOOSE n \in {t[i].id : i \in 1..Len(t)} :
              \A i \in 1..Len(t) : t[i].id <= n) + 1

\* The primary key the insert assigns: the next value of the id sequence
\* behind the Integer primary key (t is the table the row is inserted in).
primary_key(t, seq) == seq

\* db.add(obj); db.commit(): the table after the insert.
create_error_db(t, seq, d) ==
    Append(t, ErrorORM(pydantic_to_orm_data(d), primary_key(t, seq)))

\* The return value without the refresh: the object as it was before the
\* insert gave it a primary key.
create_error_db_return_unrefreshed(t, seq, d) ==
    orm_to_pydantic(ErrorORM(pydantic_to_orm_data(d), 0))

\* db.refresh(obj); return orm_to_pydantic(obj): the row is read back from
\* the table by its primary key.
create_error_db_return(t, seq, d) ==
    orm_to_pydantic(filter_first(create_error_db(t, seq, d), primary_key(t, seq))[1])

\* A delete whose filter is `ErrorORM.id >= error_id` and that removes every
\* row it finds.
delete_error_by_id_from(t, error_id) ==
    LET Below(row) == row.id < error_id
    IN  SelectSeq(t, Below)

\* The table after delete_error_by_id(error_id).
delete_error_by_id(t, error_id) ==
    IF filter_first(t, error_id) # <<>>
    THEN RemoveAt(t, CHOOSE i \in 1..Len(t) :
                         t[i].id = error_id /\ \A j \in 1..(i - 1) : t[j].id # error_id)
    ELSE t

-----------------------------------------------------------------------------
(* State                                                                   *)

VARIABLES
    columns,         \* the columns of table "errors"; {} while it does not exist
    rows,            \* the rows of the table, in the order they were inserted
    id_seq,          \* next value of the sequence behind errors.id
    pc,              \* where the process is: the module-level startup steps, then "serving"
    count,           \* seed_initial_data: its local `count`
    ddl_statements,  \* ensure_extra_columns: the statements not yet executed
    data,            \* the draft last handed to create_error_db (<<>>: none)
    ret,             \* what that create_error_db call returned (<<>>: none)
    response         \* the response of the last request handled

vars == <<columns, rows, id_seq, pc, count, ddl_statements, data, ret, response>>

NoResponse ==
    [handler |-> "none", status |-> 0, q |-> EmptyStr, category |-> EmptyStr,
     error_id |-> 0, doc_type |-> EmptyStr, errors |-> <<>>, categories |-> <<>>]

-----------------------------------------------------------------------------
(* Inputs                                                                  *)

\* ErrorBase with its field defaults (lines 143-158) and the given title.
ErrorBase(title) ==
    [type |-> StrLit_error,
     title |-> title,
     primary_category |-> StrLit_errores,
     category |-> EmptyStr,
     is_common |-> FALSE,
     short_description |-> None,
     description |-> None,
     client_message |-> None,
     causes |-> <<>>,
     quick_steps |-> <<>>,
     internal_steps |-> <<>>,
     steps |-> <<>>,
     answer |-> None,
     tags |-> <<>>,
     images |-> <<>>,
     video_url |-> None]

\* The seeder's two articles.  Every text is cut to its first two characters.
SeedE1 ==
    [ErrorBase(<<"N", "o">>) EXCEPT
        !.category = <<"r", "o">>,
        !.is_common = TRUE,
        !.short_description = <<"E", "l">>,
        !.client_message = <<"N", "o">>,
        !.causes = << <<"E", "l">>, <<"E", "l">>, <<"E", "s">> >>,
        !.quick_steps = << <<"C", "e">>, <<"V", "e">>, <<"S", "o">> >>,
        !.internal_steps = << <<"R", "e">>, <<"C", "o">> >>]

SeedE2 ==
    [ErrorBase(<<"P", "a">>) EXCEPT
        !.category = <<"e", "r">>,
        !.is_common = TRUE,
        !.short_description = <<"S", "u">>,
        !.client_message = <<"L", "a">>,
        !.causes = << <<"C", "a">>, <<"S", "e">> >>,
        !.quick_steps = << <<"R", "e">>, <<"C", "e">>, <<"P", "r">> >>]

\* The form fields of POST /admin/create as the handler's parameters receive
\* them: an omitted or empty optional field arrives as its default, title is
\* required.  image_files holds the file names of the uploads.
FormDefaults(title) ==
    [type |-> StrLit_error,
     primary_category |-> StrLit_errores,
     title |-> title,
     category |-> EmptyStr,
     is_common |-> FALSE,
     short_description |-> EmptyStr,
     description |-> EmptyStr,
     client_message |-> EmptyStr,
     causes |-> EmptyStr,
     quick_steps |-> EmptyStr,
     internal_steps |-> EmptyStr,
     steps |-> EmptyStr,
     answer |-> EmptyStr,
     tags |-> EmptyStr,
     image_files |-> <<>>,
     video_file |-> None]

\* The submissions the administrator makes in the model.
Forms ==
    { FormDefaults(<<"A", "b">>),
      [FormDefaults(<<"b">>) EXCEPT
          !.category = <<"a">>,
          !.is_common = TRUE,
          !.short_description = <<"a", "B">>,
          !.causes = <<"x", NL, NL, " ", "y", " ">>],
      [FormDefaults(<<"B">>) EXCEPT
          !.category = <<"b">>,
          !.client_message = <<"A", "b">>,
          !.quick_steps = <<NL, "x", NL>>,
          !.internal_steps = <<" ">>],
      [FormDefaults(<<"x">>) EXCEPT
          !.type = StrLit_guia,
          !.category = <<"a">>,
          !.answer = <<"a">>,
          !.tags = <<"x", NL, "y">>,
          !.image_files = << <<"a", ".", "p">>, EmptyStr >>,
          !.video_file = <<"v">>],
      [FormDefaults(<<"a", "b">>) EXCEPT
          !.type = StrLit_guia,
          !.primary_category = StrLit_guias,
          !.category = <<"b">>,
          !.is_common = TRUE,
          !.description = <<"d">>,
          !.steps = <<"x", " ", "y", NL, " ", NL, "y">>],
      [FormDefaults(<<"y">>) EXCEPT
          !.type = <<"x">>,
          !.primary_category = <<"x">>] }

\* uuid4().hex, one character long.
Uuid4Hex == {<<"1">>, <<"2">>}

\* The q and category parameters of GET / and GET /errors.
Queries == {EmptyStr, <<"B">>, <<"a", "b">>}

Categories == {EmptyStr, <<"a">>, <<"b">>}

\* The doc_type a GET /docs/{doc_type} path may carry: tokens of the table and
\* one outside it.
DocTypes == {StrLit_error, StrLit_guia, StrLit_faq, <<"x">>}

\* The ids a request path may carry.
ErrorIds == 1..MaxId

\* A row an earlier version of the program left in a table whose columns cols
\* lack some of the extended ones.
LegacyRow(cols) ==
    [id |-> 1,
     type |-> StrLit_error,
     title |-> <<"A", "b">>,
     short_description |-> <<"a">>,
     category |-> <<"a">>,
     is_common |-> TRUE,
     client_message |-> <<"b">>,
     causes_text |-> <<"x", NL, "y">>,
     quick_steps_text |-> EmptyStr,
     internal_steps_text |-> EmptyStr,
     images_text |-> EmptyStr,
     video_url |-> None,
     primary_category |-> IF "primary_category" \in cols THEN StrLit_errores ELSE None,
     description |-> None,
     steps_text |-> None,
     answer_text |-> None,
     tags_text |-> None]

-----------------------------------------------------------------------------
(* Startup: lines 83, 113 and 332 run when the module is imported          *)

\* The database before the process first starts: no table, or the table of
\* an earlier version (the baseline columns and some of the extended ones),
\* empty or holding one row.
Init ==
    /\ columns \in {{}} \cup {BaselineColumns \cup X : X \in SUBSET Range(ExtraColumns)}
    /\ rows \in IF columns = {} THEN {<<>>} ELSE {<<>>, <<LegacyRow(columns)>>}
    /\ id_seq = Len(rows) + 1
    /\ pc = "create_all"
    /\ count = 0
    /\ ddl_statements = <<>>
    /\ data = <<>>
    /\ ret = <<>>
    /\ response = NoResponse

\* Base.metadata.create_all(bind=engine): creates the table when it is absent.
CreateAll ==
    /\ pc = "create_all"
    /\ columns' = IF columns = {} THEN ErrorORMColumns ELSE columns
    /\ pc' = "ensure_extra_columns"
    /\ UNCHANGED <<rows, id_seq, count, ddl_statements, data, ret, response>>

\* The list built without looking at cols: a statement for every column.
missing_columns_unchecked(cols) == ExtraColumns

\* The ddl_statements list ensure_extra_columns builds from cols.
missing_columns(cols) ==
    LET Absent(c) == c \notin cols
    IN  SelectSeq(ExtraColumns, Absent)

\* ensure_extra_columns up to `if ddl_statements:`; the inspection raises
\* when the table does not exist, and the function returns.
EnsureExtraColumns ==
    /\ pc = "ensure_extra_columns"
    /\ ddl_statements' = IF columns = {} THEN <<>> ELSE missing_columns(columns)
    /\ pc' = IF ddl_statements' = <<>> THEN "seed_initial_data" ELSE "execute_ddl"
    /\ UNCHANGED <<columns, rows, id_seq, count, data, ret, response>>

\* What ALTER TABLE errors ADD COLUMN col does to a row: the new column holds
\* its DEFAULT ('errores' for primary_category), NULL without one.
add_column(row, col) ==
    IF col = "primary_category"
    THEN [row EXCEPT !.primary_category = StrLit_errores]
    ELSE row

\* One turn of the loop: conn.execute(text(stmt)); conn.commit()
ExecuteDdl ==
    /\ pc = "execute_ddl"
    /\ ddl_statements # <<>>
    /\ columns' = columns \cup {Head(ddl_statements)}
    /\ rows' = [i \in 1..Len(rows) |-> add_column(rows[i], Head(ddl_statements))]
    /\ ddl_statements' = Tail(ddl_statements)
    /\ pc' = IF ddl_statements' = <<>> THEN "seed_initial_data" ELSE "execute_ddl"
    /\ UNCHANGED <<id_seq, count, data, ret, response>>

\* An off-by-one guard: `if count > 1: return`
seed_returns_early_above_one(n) == n > 1

\* `if count > 0: return`
seed_returns_early(n) == n > 0

\* seed_initial_data: the count query and the guard.
SeedCount ==
    /\ pc = "seed_initial_data"
    /\ count' = Len(rows)
    /\ pc' = IF seed_returns_early(count') THEN "serving" ELSE "seed_e1"
    /\ UNCHANGED <<columns, rows, id_seq, ddl_statements, data, ret, response>>

\* create_error_db(d) called by the seeder or by the admin handler.
CallCreateErrorDb(d) ==
    /\ rows' = create_error_db(rows, id_seq, d)
    /\ id_seq' = id_seq + 1
    /\ data' = <<d>>
    /\ ret' = <<create_error_db_return(rows, id_seq, d)>>

\* create_error_db(e1)
SeedCreateE1 ==
    /\ pc = "seed_e1"
    /\ CallCreateErrorDb(SeedE1)
    /\ pc' = "seed_e2"
    /\ UNCHANGED <<columns, count, ddl_statements, response>>

\* create_error_db(e2)
SeedCreateE2 ==
    /\ pc = "seed_e2"
    /\ CallCreateErrorDb(SeedE2)
    /\ pc' = "serving"
    /\ UNCHANGED <<columns, count, ddl_statements, response>>

\* The process stops at any point and is started again: the database stays,
\* everything in memory is lost.  (The guard keeps the id sequence within
\* MaxId: a seeding that starts can insert both articles.)
Restart ==
    /\ id_seq + 1 <= MaxId
    /\ pc' = "create_all"
    /\ count' = 0
    /\ ddl_statements' = <<>>
    /\ data' = <<>>
    /\ ret' = <<>>
    /\ response' = NoResponse
    /\ UNCHANGED <<columns, rows, id_seq>>

-----------------------------------------------------------------------------
(* Request handlers; they run once the startup code has finished.  The     *)
(* handlers are coroutines that call the database synchronously, so the    *)
(* event loop runs one of them to its response before it takes the next    *)
(* request: a handler starts when no response is waiting to be sent.       *)

CategoriesOf(items) == sorted({items[i].category : i \in 1..Len(items)})

\* The text filter of home (lines 369-376) on one item.
home_matches(item, q_lower) ==
    \/ contains(q_lower, lower(item.title))
    \/ contains(q_lower, lower(OrElse(item.short_description, EmptyStr)))
    \/ contains(q_lower, lower(OrElse(item.client_message, EmptyStr)))

\* `filtered` of home with the category filter applied on top of is_common.
home_filtered_combined(all_items, q, category) ==
    LET InCategory(item) == item.category = category
        IsCommon(item) == item.is_common
        Matches(item) == home_matches(item, lower(q))
        common == SelectSeq(all_items, IsCommon)
        filtered == IF Truthy(category) THEN SelectSeq(common, InCategory) ELSE common
    IN  IF Truthy(q) THEN SelectSeq(filtered, Matches) ELSE filtered

\* `filtered` of home.
home_filtered(all_items, q, category) ==
    LET InCategory(item) == item.category = category
        IsCommon(item) == item.is_common
        Matches(item) == home_matches(item, lower(q))
        filtered == IF Truthy(category)
                    THEN SelectSeq(all_items, InCategory)
                    ELSE SelectSeq(all_items, IsCommon)
    IN  IF Truthy(q) THEN SelectSeq(filtered, Matches) ELSE filtered

\* GET /
Home(q, category) ==
    /\ pc = "serving"
    /\ response = NoResponse
    /\ LET all_items == get_all_errors(rows)
       IN  response' =
             [handler |-> "home", status |-> 200, q |-> q, category |-> category,
              error_id |-> 0, doc_type |-> EmptyStr,
              errors |-> home_filtered(all_items, q, category),
              categories |-> CategoriesOf(all_items)]
    /\ count' = 0
    /\ data' = <<>>
    /\ ret' = <<>>
    /\ UNCHANGED <<columns, rows, id_seq, pc, ddl_statements>>

\* The text filter of errors_list (lines 402-405) on one item.
errors_list_matches(e, q_lower) ==
    \/ contains(q_lower, lower(e.title))
    \/ contains(q_lower, lower(e.short_description))
    \/ contains(q_lower, lower(e.client_message))

\* The same filter raises AttributeError when it reaches .lower() of a None.
errors_list_raises(e, q_lower) ==
    /\ ~contains(q_lower, lower(e.title))
    /\ \/ e.short_description = None
       \/ /\ ~contains(q_lower, lower(e.short_description))
          /\ e.client_message = None

\* `filtered` of errors_list after the category filter.
errors_list_in_category(all_errors, category) ==
    LET InCategory(e) == e.category = category
    IN  IF Truthy(category) THEN SelectSeq(all_errors, InCategory) ELSE all_errors

\* `filtered` of errors_list.
errors_list_filtered(all_errors, q, category) ==
    LET Matches(e) == errors_list_matches(e, lower(q))
        filtered == errors_list_in_category(all_errors, category)
    IN  IF Truthy(q) THEN SelectSeq(filtered, Matches) ELSE filtered

\* Whether errors_list ends in an unhandled exception (a 500 response).
errors_list_fails(all_errors, q, category) ==
    LET filtered == errors_list_in_category(all_errors, category)
    IN  /\ Truthy(q)
        /\ \E i \in 1..Len(filtered) : errors_list_raises(filtered[i], lower(q))

\* GET /errors
ErrorsList(q, category) ==
    /\ pc = "serving"
    /\ response = NoResponse
    /\ LET all_errors == get_all_errors(rows)
       IN  response' =
             IF errors_list_fails(all_errors, q, category)
             THEN [handler |-> "errors_list", status |-> 500, q |-> q,
                   category |-> category, error_id |-> 0, doc_type |-> EmptyStr, errors |-> <<>>,
                   categories |-> <<>>]
             ELSE [handler |-> "errors_list", status |-> 200, q |-> q,
                   category |-> category, error_id |-> 0, doc_type |-> EmptyStr,
                   errors |-> errors_list_filtered(all_errors, q, category),
                   categories |-> CategoriesOf(all_errors)]
    /\ count' = 0
    /\ data' = <<>>
    /\ ret' = <<>>
    /\ UNCHANGED <<columns, rows, id_seq, pc, ddl_statements>>

\* error_detail answering without the test `if not err`: the template gets
\* None and the request fails.
error_detail_status_unchecked(err) == IF err = <<>> THEN 500 ELSE 200

\* The status error_detail answers with for the err get_error_by_id returned:
\* 404 for None, the rendered template otherwise.
error_detail_status(err) == IF err = <<>> THEN 404 ELSE 200

\* What error_detail answers for the err get_error_by_id returned.
error_detail_response(error_id, err) ==
    [handler |-> "error_detail", status |-> error_detail_status(err),
     q |-> EmptyStr, category |-> EmptyStr, error_id |-> error_id,
     doc_type |-> EmptyStr, errors |-> err, categories |-> <<>>]

\* GET /errors/{error_id}
ErrorDetail(error_id) ==
    /\ pc = "serving"
    /\ response = NoResponse
    /\ response' = error_detail_response(error_id, get_error_by_id(rows, error_id))
    /\ count' = 0
    /\ data' = <<>>
    /\ ret' = <<>>
    /\ UNCHANGED <<columns, rows, id_seq, pc, ddl_statements>>

\* type_to_category.get(doc_type, doc_type)
type_to_category_get(doc_type) ==
    CASE doc_type = StrLit_error -> StrLit_errores
      [] doc_type = StrLit_guia -> StrLit_guias
      [] doc_type = StrLit_comportamiento -> StrLit_buenas_practicas
      [] doc_type = StrLit_faq -> StrLit_faq
      [] doc_type = StrLit_novedad -> StrLit_novedades
      [] OTHER -> doc_type

\* `filtered` of docs_by_type without the test of primary_category.
docs_by_type_filtered_by_type_only(all_items, doc_type) ==
    LET Shown(item) == item.type = doc_type
    IN  SelectSeq(all_items, Shown)

\* `filtered` of docs_by_type.
docs_by_type_filtered(all_items, doc_type) ==
    LET expected_cat == type_to_category_get(doc_type)
        Shown(item) == item.type = doc_type /\ item.primary_category = expected_cat
    IN  SelectSeq(all_items, Shown)

\* GET /docs/{doc_type}
DocsByType(doc_type) ==
    /\ pc = "serving"
    /\ response = NoResponse
    /\ response' =
         [handler |-> "docs_by_type", status |-> 200, q |-> EmptyStr,
          category |-> EmptyStr, error_id |-> 0, doc_type |-> doc_type,
          errors |-> docs_by_type_filtered(get_all_errors(rows), doc_type),
          categories |-> <<>>]
    /\ count' = 0
    /\ data' = <<>>
    /\ ret' = <<>>
    /\ UNCHANGED <<columns, rows, id_seq, pc, ddl_statements>>

\* GET /admin
AdminPanel ==
    /\ pc = "serving"
    /\ response = NoResponse
    /\ response' =
         [handler |-> "admin_panel", status |-> 200, q |-> EmptyStr,
          category |-> EmptyStr, error_id |-> 0, doc_type |-> EmptyStr,
          errors |-> get_all_errors(rows), categories |-> <<>>]
    /\ count' = 0
    /\ data' = <<>>
    /\ ret' = <<>>
    /\ UNCHANGED <<columns, rows, id_seq, pc, ddl_statements>>

StrLit_uploads_images ==
    <<"/", "u", "p", "l", "o", "a", "d", "s", "/", "i", "m", "a", "g", "e", "s", "/">>

StrLit_uploads_videos ==
    <<"/", "u", "p", "l", "o", "a", "d", "s", "/", "v", "i", "d", "e", "o", "s", "/">>

\* f"{dir}{uuid4().hex}.{ext}" with ext = filename.split(".")[-1]
upload_url(dir, hex, filename) ==
    LET parts == split(filename, ".")
    IN  dir \o hex \o <<".">> \o parts[Len(parts)]

\* image_urls: one url for every upload that has a file name; hexes[i] is the
\* uuid4 drawn for the i-th upload.
RECURSIVE image_urls(_, _)
image_urls(files, hexes) ==
    IF files = <<>> THEN <<>>
    ELSE (IF Truthy(Head(files))
          THEN <<upload_url(StrLit_uploads_images, Head(hexes), Head(files))>>
          ELSE <<>>)
         \o image_urls(Tail(files), Tail(hexes))

\* The ErrorBase admin_create_error builds (lines 561-585).
admin_create_data(f, hexes, video_hex) ==
    [type |-> f.type,
     title |-> f.title,
     primary_category |-> f.primary_category,
     category |-> f.category,
     is_common |-> f.is_common,
     short_description |-> OrElse(f.short_description, None),
     description |-> OrElse(f.description, None),
     client_message |-> OrElse(f.client_message, None),
     causes |-> form_to_list(f.causes),
     quick_steps |-> form_to_list(f.quick_steps),
     internal_steps |-> form_to_list(f.internal_steps),
     steps |-> form_to_list(f.steps),
     answer |-> OrElse(f.answer, None),
     tags |-> form_to_list(f.tags),
     images |-> image_urls(f.image_files, hexes),
     video_url |-> IF Truthy(f.video_file)
                   THEN upload_url(StrLit_uploads_videos, video_hex, f.video_file)
                   ELSE None]

Redirect(handler, error_id) ==
    [handler |-> handler, status |-> 303, q |-> EmptyStr, category |-> EmptyStr,
     error_id |-> error_id, doc_type |-> EmptyStr, errors |-> <<>>, categories |-> <<>>]

\* POST /admin/create.  (The files written under uploads/ are not part of
\* the state.  The guards keep the table within MaxRows and the id sequence
\* within MaxId.)
AdminCreate(f, hexes, video_hex) ==
    /\ pc = "serving"
    /\ response = NoResponse
    /\ Len(rows) < MaxRows
    /\ id_seq <= MaxId
    /\ CallCreateErrorDb(admin_create_data(f, hexes, video_hex))
    /\ response' = Redirect("admin_create_error", 0)
    /\ count' = 0
    /\ UNCHANGED <<columns, pc, ddl_statements>>

\* POST /admin/delete/{error_id}
AdminDelete(error_id) ==
    /\ pc = "serving"
    /\ response = NoResponse
    /\ rows' = delete_error_by_id(rows, error_id)
    /\ response' = Redirect("admin_delete_error", error_id)
    /\ count' = 0
    /\ data' = <<>>
    /\ ret' = <<>>
    /\ UNCHANGED <<columns, id_seq, pc, ddl_statements>>

\* The response goes out to the client; the handler's frame is gone.
SendResponse ==
    /\ pc = "serving"
    /\ response # NoResponse
    /\ response' = NoResponse
    /\ data' = <<>>
    /\ ret' = <<>>
    /\ UNCHANGED <<columns, rows, id_seq, pc, count, ddl_statements>>

\* The uuid4 draws of one POST /admin/create: none where the form uploads no
\* file.
HexesFor(f) == [1..Len(f.image_files) -> Uuid4Hex]

VideoHexFor(f) == IF Truthy(f.video_file) THEN Uuid4Hex ELSE {EmptyStr}

Next ==
    \/ CreateAll
    \/ EnsureExtraColumns
    \/ ExecuteDdl
    \/ SeedCount
    \/ SeedCreateE1
    \/ SeedCreateE2
    \/ Restart
    \/ \E q \in Queries, category \in Categories : Home(q, category)
    \/ \E q \in Queries, category \in Categories : ErrorsList(q, category)
    \/ \E error_id \in ErrorIds : ErrorDetail(error_id)
    \/ \E doc_type \in DocTypes : DocsByType(doc_type)
    \/ AdminPanel
    \/ \E f \in Forms : \E hexes \in HexesFor(f), video_hex \in VideoHexFor(f) :
          AdminCreate(f, hexes, video_hex)
    \/ \E error_id \in ErrorIds : AdminDelete(error_id)
    \/ SendResponse

Spec == Init /\ [][Next]_vars

-----------------------------------------------------------------------------
(* GET /errors/{error_id} in one worker process while other workers of the *)
(* same database serve POST /admin/delete/{id}: the handler is cut at its  *)
(* one database access, the query of get_error_by_id.                      *)

\* error_detail, line 477: get_error_by_id has run its query, closed its
\* session and returned err; the handler has not answered yet (status 0).
DetailQuery(error_id) ==
    /\ pc = "serving"
    /\ response = NoResponse
    /\ pc' = "error_detail"
    /\ response' =
         [error_detail_response(error_id, get_error_by_id(rows, error_id))
             EXCEPT !.status = 0]
    /\ count' = 0
    /\ data' = <<>>
    /\ ret' = <<>>
    /\ UNCHANGED <<columns, rows, id_seq, ddl_statements>>

\* delete_error_by_id committed by another worker while err is held here.
ConcurrentDelete(error_id) ==
    /\ pc = "error_detail"
    /\ rows' = delete_error_by_id(rows, error_id)
    /\ UNCHANGED <<columns, id_seq, pc, count, ddl_statements, data, ret, response>>

\* error_detail, lines 478 to 483: the answer is made from err alone.
DetailRespond ==
    /\ pc = "error_detail"
    /\ pc' = "serving"
    /\ response' = error_detail_response(response.error_id, response.errors)
    /\ UNCHANGED <<columns, rows, id_seq, count, ddl_statements, data, ret>>

NextConcurrent ==
    \/ Next
    \/ \E error_id \in ErrorIds : DetailQuery(error_id)
    \/ \E error_id \in ErrorIds : ConcurrentDelete(error_id)
    \/ DetailRespond

SpecConcurrent == Init /\ [][NextConcurrent]_vars

-----------------------------------------------------------------------------
(* The mapper on its own: a record is converted to a row and back.         *)

\* Sequence fields the mapper is applied to: clean lists, lists with blank
\* entries, and entries that hold the separator.
MapperLists ==
    { <<>>,
      << <<"x">> >>,
      << <<"x">>, <<"y">> >>,
      << <<"y">>, <<"x">>, <<"x">> >>,
      << EmptyStr >>,
      << <<"x">>, EmptyStr, <<"y">> >>,
      << <<"x", NL, "y">> >>,
      << <<NL>> >> }

MapperTexts == {None, EmptyStr, <<"a">>}

\* The records (ErrorBase values) the mapper is applied to.
MapperRecords ==
    { [ErrorBase(<<"A", "b">>) EXCEPT
          !.primary_category = pcat,
          !.short_description = sd,
          !.client_message = cm,
          !.answer = ans,
          !.description = ans,
          !.is_common = (cm = None),
          !.causes = l1,
          !.tags = l2,
          !.steps = l2,
          !.video_url = sd] :
        pcat \in {EmptyStr, StrLit_errores, StrLit_guias},
        sd \in MapperTexts, cm \in MapperTexts, ans \in MapperTexts,
        l1 \in MapperLists, l2 \in {<<>>, << <<"x">>, <<"y">> >>} }

InitMapper ==
    /\ columns = ErrorORMColumns
    /\ rows = <<>>
    /\ id_seq = 1
    /\ pc = "record"
    /\ count = 0
    /\ ddl_statements = <<>>
    /\ data \in {<<d>> : d \in MapperRecords}
    /\ ret = <<>>
    /\ response = NoResponse

\* record -> row
MapperToRow ==
    /\ pc = "record"
    /\ rows' = <<ErrorORM(pydantic_to_orm_data(data[1]), id_seq)>>
    /\ pc' = "row"
    /\ UNCHANGED <<columns, id_seq, count, ddl_statements, data, ret, response>>

\* row -> record
MapperToRecord ==
    /\ pc = "row"
    /\ ret' = <<orm_to_pydantic(rows[1])>>
    /\ pc' = "record_again"
    /\ UNCHANGED <<columns, rows, id_seq, count, ddl_statements, data, response>>

NextMapper == MapperToRow \/ MapperToRecord

SpecMapper == InitMapper /\ [][NextMapper]_vars

-----------------------------------------------------------------------------
(* Properties                                                              *)

Ids(t) == {t[i].id : i \in 1..Len(t)}

\* C1: the seeder inserts only in a run whose count query found no row.  A
\* run that finds a row leaves the table as it is and goes on to serving;
\* a run goes on to its inserts only from an empty table; and whenever the
\* seeder is about to insert, the table holds nothing but what this same run
\* inserted (nothing before e1, e1 alone before e2).
C1_SeederGuard ==
    /\ [](/\ pc = "seed_e1" => count = 0 /\ rows = <<>>
          /\ pc = "seed_e2" =>
                /\ count = 0
                /\ Len(rows) = 1
                /\ rows[1].title = SeedE1.title)
    /\ [][/\ pc = "seed_initial_data" /\ Len(rows) > 0 =>
                rows' = rows /\ pc' \in {"serving", "create_all"}
          /\ pc = "seed_initial_data" /\ pc' = "seed_e1" => Len(rows) = 0
          /\ pc \in {"seed_initial_data", "seed_e1", "seed_e2"} /\ rows' # rows =>
                /\ count = 0
                /\ Len(rows') = Len(rows) + 1
                /\ \A i \in 1..Len(rows) : rows'[i] = rows[i]]_vars

\* The seeder has just run on a table that holds rows, and returned.
C1_Witness ==
    /\ pc = "serving"
    /\ response = NoResponse
    /\ count > 0
    /\ Len(rows) = count

\* C2: POST /admin/delete/{id} answers (303) whether or not the id is stored;
\* an id that is not stored leaves the table as it was; an id that is stored
\* loses its row, and every other row stays, with its fields and in its place.
C2_DeleteSemantics ==
    [][response = NoResponse /\ response'.handler = "admin_delete_error" =>
          LET id == response'.error_id
              Others(row) == row.id # id
          IN  /\ response'.status = 303
              /\ id \notin Ids(rows) => rows' = rows
              /\ id \in Ids(rows) =>
                    /\ Len(rows') = Len(rows) - 1
                    /\ id \notin Ids(rows')
                    /\ rows' = SelectSeq(rows, Others)]_vars

\* A delete has been answered for an id that was handed out earlier and is
\* not stored, while other rows are.
C2_Witness ==
    /\ response.handler = "admin_delete_error"
    /\ response.error_id < id_seq
    /\ response.error_id \notin Ids(rows)
    /\ rows # <<>>

\* An existing article keeps its id and its fields (a column added by the
\* reconciler aside).
SameArticle(r1, r2) ==
    [r1 EXCEPT !.primary_category = None] = [r2 EXCEPT !.primary_category = None]

\* C3: no two stored articles share an id and every stored id lies below the
\* id sequence; the sequence never goes back; a row that appears carries an
\* id the sequence had not handed out yet; and a stored article either stays,
\* with the id it had, or its id leaves the table.
C3_IdsUniqueNeverReused ==
    /\ [](/\ \A i, j \in 1..Len(rows) : i # j => rows[i].id # rows[j].id
          /\ \A i \in 1..Len(rows) : rows[i].id < id_seq)
    /\ [][/\ id_seq' >= id_seq
          /\ \A i \in 1..Len(rows') :
                rows'[i].id \notin Ids(rows) =>
                    rows'[i].id >= id_seq /\ rows'[i].id < id_seq'
          /\ \A j \in 1..Len(rows) :
                \/ \E i \in 1..Len(rows') : SameArticle(rows'[i], rows[j])
                \/ rows[j].id \notin Ids(rows')]_vars

\* The table is full and holds the newest id, and more ids were handed out
\* than it has room for: an article was deleted and a later one created.
C3_Witness ==
    /\ Len(rows) = MaxRows
    /\ id_seq - 1 > MaxRows
    /\ (id_seq - 1) \in Ids(rows)

C5_ListAllNewestFirst ==
    response.handler = "admin_panel" =>
        LET r == response.errors
        IN  /\ Len(r) = Len(rows)
            /\ \A i \in 1..Len(rows) :
                  \E k \in 1..Len(r) : r[k] = orm_to_pydantic(rows[i])
            /\ \A k \in 1..(Len(r) - 1) : r[k].id > r[k + 1].id
            /\ \A i, j \in 1..Len(rows) : \A k1, k2 \in 1..Len(r) :
                  (i < j /\ r[k1].id = rows[i].id /\ r[k2].id = rows[j].id) => k2 < k1

\* The list holds at least two articles and an earlier article is gone.
C5_Witness ==
    /\ response.handler = "admin_panel"
    /\ Len(response.errors) >= 2
    /\ \E n \in 1..(id_seq - 1) : n \notin Ids(rows)

\* The sequence fields of a record.
ListsOf(e) == <<e.causes, e.quick_steps, e.internal_steps, e.steps, e.tags, e.images>>

\* A sequence of non-empty strings that hold no newline.
CleanList(l) ==
    \A i \in 1..Len(l) : l[i] # EmptyStr /\ \A k \in 1..Len(l[i]) : l[i][k] # NL

CleanRecord(d) == \A n \in 1..6 : CleanList(ListsOf(d)[n])

\* An empty and an absent text both come back as `absent`.
EmptyAs(x, absent) == IF x = None \/ x = EmptyStr THEN absent ELSE x

\* The fields the round trip reproduces as they were, whatever the record.
RoundTripExact(d, r) ==
    /\ ListsOf(r) = ListsOf(d)
    /\ r.type = d.type
    /\ r.title = d.title
    /\ r.category = d.category
    /\ r.is_common = d.is_common
    /\ r.description = d.description
    /\ r.video_url = d.video_url
    /\ r.answer = EmptyAs(d.answer, None)

\* C6 as stated: after record -> row -> record, a record whose sequences hold
\* only non-empty, newline-free strings has every sequence and every scalar
\* field as it was, answer alone coming back absent when it was empty.
C6_RoundTripAsStated ==
    (data # <<>> /\ ret # <<>> /\ CleanRecord(data[1])) =>
        /\ RoundTripExact(data[1], ret[1])
        /\ ret[1].short_description = data[1].short_description
        /\ ret[1].client_message = data[1].client_message
        /\ ret[1].primary_category = data[1].primary_category

\* C6 amended: the same, with three more exceptions: an absent
\* short_description and an absent client_message come back as the empty
\* string, and an empty primary_category comes back as "errores".
C6_RoundTrip ==
    (data # <<>> /\ ret # <<>> /\ CleanRecord(data[1])) =>
        /\ RoundTripExact(data[1], ret[1])
        /\ ret[1].short_description = EmptyAs(data[1].short_description, EmptyStr)
        /\ ret[1].client_message = EmptyAs(data[1].client_message, EmptyStr)
        /\ ret[1].primary_category = EmptyAs(data[1].primary_category, StrLit_errores)

\* A clean record with several entries in a sequence, an empty answer and an
\* absent short_description has gone through the round trip.
C6_Witness ==
    /\ pc = "record_again"
    /\ ret # <<>>
    /\ CleanRecord(data[1])
    /\ Len(data[1].causes) >= 2
    /\ Len(data[1].tags) >= 2
    /\ data[1].answer = EmptyStr
    /\ data[1].short_description = None
    /\ data[1].client_message = <<"a">>

NoBlankEntry(e) == \A n \in 1..6 : \A i \in 1..Len(ListsOf(e)[n]) : ListsOf(e)[n][i] # EmptyStr

Occurrences(sq, x) == Cardinality({i \in 1..Len(sq) : sq[i] = x})

StartupDone == pc \in {"seed_initial_data", "seed_e1", "seed_e2", "serving"}

\* C8: ensure_extra_columns lists one ADD COLUMN for each of the five columns
\* that is missing and none for one that is present; each statement adds the
\* one column it names, which was missing, and leaves the rows' other fields
\* alone; no step ever takes a column away; a run that finds all five lists
\* nothing; and once a run is through all five are there, so that every later
\* run lists nothing.
C8_Reconciliation ==
    /\ [](StartupDone => Range(ExtraColumns) \subseteq columns)
    /\ [][/\ columns \subseteq columns'
          /\ (pc = "ensure_extra_columns" /\ pc' # "create_all" /\ columns # {}) =>
                /\ Range(ddl_statements') \subseteq Range(ExtraColumns)
                /\ \A c \in Range(ExtraColumns) :
                      Occurrences(ddl_statements', c) = IF c \in columns THEN 0 ELSE 1
          /\ (pc = "ensure_extra_columns" /\ pc' # "create_all"
                /\ Range(ExtraColumns) \subseteq columns) =>
                ddl_statements' = <<>> /\ pc' = "seed_initial_data"
          /\ (pc = "execute_ddl" /\ pc' # "create_all") =>
                /\ Head(ddl_statements) \notin columns
                /\ columns' = columns \cup {Head(ddl_statements)}
                /\ ddl_statements' = Tail(ddl_statements)
                /\ Len(rows') = Len(rows)
                /\ \A i \in 1..Len(rows) : SameArticle(rows'[i], rows[i])]_vars

\* The reconciler has run again on the schema an earlier start of this
\* program left (the table holds a seeded article) and has nothing to execute.
C8_Witness ==
    /\ pc = "seed_initial_data"
    /\ ddl_statements = <<>>
    /\ \E i \in 1..Len(rows) : rows[i].title = SeedE1.title

\* The stored articles as records.
Stored == {orm_to_pydantic(rows[i]) : i \in 1..Len(rows)}

\* C9: GET / with no q shows the articles with is_common when category is
\* empty, and the articles of the category, common or not, when it is not;
\* each once.  With a q, what it shows still comes from that one filter.
C9_HomeFilter ==
    response.handler = "home" =>
        LET shown == Range(response.errors)
            base == IF response.category # EmptyStr
                    THEN {e \in Stored : e.category = response.category}
                    ELSE {e \in Stored : e.is_common}
        IN  /\ shown \subseteq base
            /\ response.q = EmptyStr => shown = base
            /\ Len(response.errors) = Cardinality(shown)

\* GET /?category=c has shown an article that is not common and has left
\* out a common article of another category.
C9_Witness ==
    /\ response.handler = "home"
    /\ response.q = EmptyStr
    /\ response.category # EmptyStr
    /\ \E k \in 1..Len(response.errors) : ~response.errors[k].is_common
    /\ \E e \in Stored : e.is_common /\ e.category # response.category

\* Two characters that are equal or the two cases of one letter.
SameLetter(a, b) ==
    a = b \/ \E i \in 1..Len(UpperCase) : {a, b} = {UpperCase[i], LowerCase[i]}

\* q occurs in s, the case of the letters aside.
ContainsIgnoringCase(q, s) ==
    \E k \in 0..(Len(s) - Len(q)) : \A n \in 1..Len(q) : SameLetter(s[k + n], q[n])

\* An absent text counts as the empty string.
TextOf(x) == IF x = None THEN EmptyStr ELSE x

SearchHit(e, q) ==
    \/ ContainsIgnoringCase(q, e.title)
    \/ ContainsIgnoringCase(q, TextOf(e.short_description))
    \/ ContainsIgnoringCase(q, TextOf(e.client_message))

\* C10: GET / and GET /errors never fail; with a q they show, of the list
\* their category filter leaves (for GET /errors without category: every
\* article), the articles whose title, short_description or client_message
\* holds q, case aside, an absent text counting as empty; each once.
C10_TextSearch ==
    response.handler \in {"home", "errors_list"} =>
        LET shown == Range(response.errors)
            base == IF response.category # EmptyStr
                    THEN {e \in Stored : e.category = response.category}
                    ELSE IF response.handler = "home"
                    THEN {e \in Stored : e.is_common}
                    ELSE Stored
        IN  /\ response.status = 200
            /\ shown = {e \in base : response.q = EmptyStr \/ SearchHit(e, response.q)}
            /\ Len(response.errors) = Cardinality(shown)

\* GET /errors?q=ab has shown an article that has no short_description and
\* whose title does not hold q: the match came from client_message.
C10_Witness ==
    /\ response.handler = "errors_list"
    /\ response.q = <<"a", "b">>
    /\ response.category = EmptyStr
    /\ \E k \in 1..Len(response.errors) :
          /\ response.errors[k].short_description = EmptyStr
          /\ ~ContainsIgnoringCase(response.q, response.errors[k].title)
    /\ Len(response.errors) < Len(rows)

\* The fixed table of document types and their primary categories.
TypeCategory ==
    { <<StrLit_error, StrLit_errores>>,
      <<StrLit_guia, StrLit_guias>>,
      <<StrLit_comportamiento, StrLit_buenas_practicas>>,
      <<StrLit_faq, StrLit_faq>>,
      <<StrLit_novedad, StrLit_novedades>> }

InTable(t) == \E p \in TypeCategory : p[1] = t

\* What GET /docs/{t} shows for a token t of the table: the articles of type
\* t whose primary_category is the one the table gives for t, each once.
GatedByTable(t, shown) ==
    InTable(t) =>
        shown = {e \in Stored : e.type = t /\ <<t, e.primary_category>> \in TypeCategory}

\* C11 as stated: the view shows the articles gated by the table, and for a
\* token outside the table it shows nothing.
C11_TypeGatingAsStated ==
    response.handler = "docs_by_type" =>
        LET shown == Range(response.errors)
        IN  /\ GatedByTable(response.doc_type, shown)
            /\ ~InTable(response.doc_type) => shown = {}
            /\ Len(response.errors) = Cardinality(shown)

\* C11 amended: the view shows the articles gated by the table, and for a
\* token outside the table it shows the articles whose type and
\* primary_category both equal the token (none, unless one was created).
C11_TypeGating ==
    response.handler = "docs_by_type" =>
        LET shown == Range(response.errors)
            t == response.doc_type
        IN  /\ GatedByTable(t, shown)
            /\ ~InTable(t) =>
                  shown = {e \in Stored : e.type = t /\ e.primary_category = t}
            /\ Len(response.errors) = Cardinality(shown)

\* GET /docs/guia has shown a guide whose primary category is "guias" and
\* has left out a stored guide whose primary category is "errores".
C11_Witness ==
    /\ response.handler = "docs_by_type"
    /\ response.doc_type = StrLit_guia
    /\ Len(response.errors) = 1
    /\ response.errors[1].primary_category = StrLit_guias
    /\ \E e \in Stored : e.type = StrLit_guia /\ e.primary_category = StrLit_errores

\* The record of article i in the table t, as a sequence of at most one.
ArticleIn(t, i) == {<<orm_to_pydantic(t[k])>> : k \in {k \in 1..Len(t) : t[k].id = i}}

\* C12: a detail request for id i, with deletes by other workers before,
\* during and after it, takes from its query the whole article i as stored at
\* that moment, or nothing when no article has that id; deletes that come
\* after the query change nothing of what it holds; and, the process not
\* being restarted under it, it answers 200 with that one whole article or
\* 404 with none, never anything else.
C12_DetailUnderDeletes ==
    [][/\ (pc = "serving" /\ pc' = "error_detail") =>
             /\ response'.handler = "error_detail"
             /\ IF response'.error_id \in Ids(rows)
                  THEN response'.errors \in ArticleIn(rows, response'.error_id)
                  ELSE response'.errors = <<>>
       /\ (pc = "error_detail" /\ pc' \in {"error_detail", "serving"}) =>
             /\ response'.errors = response.errors
             /\ response'.error_id = response.error_id
             /\ response'.handler = "error_detail"
       /\ (pc = "error_detail" /\ pc' = "serving") =>
             /\ response'.status \in {200, 404}
             /\ response'.status = 404 <=> response.errors = <<>>
             /\ response'.status = 200 <=> Len(response.errors) = 1
       /\ (pc = "serving" /\ pc' = "serving" /\ response'.handler = "error_detail") =>
             /\ response'.status \in {200, 404}
             /\ IF response'.error_id \in Ids(rows)
                  THEN /\ response'.status = 200
                       /\ response'.errors \in ArticleIn(rows, response'.error_id)
                  ELSE /\ response'.status = 404
                       /\ response'.errors = <<>>
      ]_vars

\* A detail request has answered 200 with an article that another worker
\* deleted between the request's query and its answer.
C12_Witness ==
    /\ pc = "serving"
    /\ response.handler = "error_detail"
    /\ response.status = 200
    /\ Len(response.errors) = 1
    /\ response.error_id \notin Ids(rows)

====
